---- MODULE Spec2Model ----
(***************************************************************************)
(* A model of piston_rs::Client (src/client.rs): construction, the header  *)
(* assembly, the accessors, and the two asynchronous requests              *)
(* fetch_runtimes and execute, run as interleaved calls on one shared      *)
(* Client.                                                                 *)
(*                                                                         *)
(* Conventions.  Option<T> is a sequence of length at most one: None is    *)
(* <<>> and Some(v) is <<v>>.  A Result is a record [ok, err] of two such  *)
(* options.  A String is a TLA+ string, concatenated with \o, except the   *)
(* text that goes through HeaderValue::from_str, which is a sequence of    *)
(* byte values so that the validity test of each byte can be computed.     *)
(***************************************************************************)
EXTENDS Integers, Sequences, FiniteSets, TLC

VARIABLES
    ctor,       \* the constructor call the caller made
    client,     \* Some(the Client it returned), or None when it panicked
    executors,  \* the caller's Executor values, borrowed by execute
    pc,         \* each call's position
    op,         \* each call's method
    arg,        \* each execute call's `executor` argument (whose it borrows)
    sent,       \* the requests each call has put on the wire, in order
    reply,      \* what the transport has delivered to each call (`data`)
    status,     \* each execute call's local `status`
    result      \* each call's return value

vars == <<ctor, client, executors, pc, op, arg, sent, reply, status, result>>

(* The number of calls (execute or fetch_runtimes) made on the Client. *)
MaxCalls == 2

Calls == 1..MaxCalls

None == <<>>
Some(v) == <<v>>

Ok(v) == [ok |-> Some(v), err |-> None]
Err(e) == [ok |-> None, err |-> Some(e)]
Pending == [ok |-> None, err |-> None]
IsOk(r) == r.ok # None
IsErr(r) == r.err # None

(***************************************************************************)
(* Header values                                                           *)
(***************************************************************************)

(* "application/json" *)
ApplicationJson == <<97, 112, 112, 108, 105, 99, 97, 116, 105, 111, 110, 47, 106, 115, 111, 110>>
(* "piston-rs" *)
PistonRs == <<112, 105, 115, 116, 111, 110, 45, 114, 115>>
(* "123abc", the key of the documentation's examples *)
Key123abc == <<49, 50, 51, 97, 98, 99>>
(* "abc\n", a key ending in a line feed, as read from a file *)
KeyNewline == <<97, 98, 99, 10>>

Keys == {Key123abc, KeyNewline}

(* http's test of one byte of a header value: visible, or a tab *)
IsValidHeaderByte(b) == (b >= 32 /\ b # 127) \/ b = 9

(* HeaderValue::from_str(s): Ok(the bytes of s), or Err(InvalidHeaderValue) *)
HeaderValue_from_str(s) ==
    IF \A i \in 1..Len(s) : IsValidHeaderByte(s[i])
    THEN Ok(s)
    ELSE Err("InvalidHeaderValue")

EmptyHeaderMap == [n \in {} |-> <<>>]

(* HeaderMap::insert *)
HeaderInsert(h, name, value) ==
    [n \in DOMAIN h \cup {name} |-> IF n = name THEN value ELSE h[n]]

(* A call either returns a value or panics (Result::unwrap on an Err). *)
Panic == <<>>
Returned(v) == <<v>>

(* Client::generate_headers(key): the HeaderMap, or a panic of the unwrap *)
generate_headers(key) ==
    LET accept == HeaderValue_from_str(ApplicationJson)
        agent  == HeaderValue_from_str(PistonRs)
    IN  IF IsErr(accept) \/ IsErr(agent)
        THEN Panic
        ELSE LET headers == HeaderInsert(HeaderInsert(EmptyHeaderMap, "Accept", accept.ok[1]),
                                         "User-Agent", agent.ok[1])
             IN  IF key = None
                 THEN Returned(headers)
                 ELSE LET auth == HeaderValue_from_str(key[1])
                      IN  IF IsErr(auth)
                          THEN Panic
                          ELSE Returned(HeaderInsert(headers, "Authorization", auth.ok[1]))

(***************************************************************************)
(* Construction                                                            *)
(***************************************************************************)

PublicUrl == "https://emkc.org/api/v2/piston"
Urls == {"http://localhost:3000"}

(* Self { url, client, headers }: the struct literal of every constructor *)
MakeClient(url, headers) ==
    IF headers = Panic THEN Panic ELSE Returned([url |-> url, headers |-> headers[1]])

new == MakeClient(PublicUrl, generate_headers(None))
default == new
with_url(url) == MakeClient(url, generate_headers(None))
with_key(key) == MakeClient(PublicUrl, generate_headers(Some(key)))
(* with_url_and_key written from with_key, its url left as it was there *)
with_url_and_key_PublicUrl(url, key) == MakeClient(PublicUrl, generate_headers(Some(key)))

with_url_and_key(url, key) == MakeClient(url, generate_headers(Some(key)))

(* The constructor calls a caller can make: the function and its arguments
   (Client::default() is Client::new()). *)
Ctors ==
    {[fn |-> "new", url |-> None, key |-> None]}
    \cup {[fn |-> "with_url", url |-> Some(u), key |-> None] : u \in Urls}
    \cup {[fn |-> "with_key", url |-> None, key |-> Some(k)] : k \in Keys}
    \cup {[fn |-> "with_url_and_key", url |-> Some(u), key |-> Some(k)] : u \in Urls, k \in Keys}

Construct(ct) ==
    CASE ct.fn = "new" -> new
      [] ct.fn = "with_url" -> with_url(ct.url[1])
      [] ct.fn = "with_key" -> with_key(ct.key[1])
      [] ct.fn = "with_url_and_key" -> with_url_and_key(ct.url[1], ct.key[1])

(* Client::get_url and Client::get_headers: clones of the fields *)
get_url(self) == self.url
get_headers(self) == self.headers

(***************************************************************************)
(* The remote service's replies                                            *)
(***************************************************************************)

(* StatusCode is a u16; as_u16 reads it. *)
as_u16(s) == s % 65536

(* StatusCode::canonical_reason, for the codes of the model *)
canonical_reason(s) ==
    CASE s = 200 -> Some("OK")
      [] s = 201 -> Some("Created")
      [] s = 400 -> Some("Bad Request")
      [] OTHER -> None

(* Display for StatusCode: "{code} {reason}" *)
StatusDisplay(s) ==
    ToString(as_u16(s)) \o " " \o
        (IF canonical_reason(s) = None THEN "<unknown status code>" ELSE canonical_reason(s)[1])

StatusOK == 200
Statuses == {200, 201, 400, 299}
FetchStatuses == {200, 400}

ExecIds == {"e1", "e2"}
InitialExecutors ==
    [e \in ExecIds |-> IF e = "e1" THEN [language |-> "rust", version |-> "*"]
                                   ELSE [language |-> "python", version |-> "3.10.0"]]

PayloadRun ==
    [language |-> "rust", version |-> "1.50.0",
     run |-> [stdout |-> "42\n", stderr |-> "", output |-> "42\n", code |-> 0, signal |-> None],
     compile |-> None]
PayloadCompile ==
    [language |-> "rust", version |-> "1.68.2",
     run |-> [stdout |-> "", stderr |-> "", output |-> "", code |-> 137, signal |-> Some("SIGKILL")],
     compile |-> Some([stdout |-> "", stderr |-> "warning: unused", output |-> "warning: unused",
                       code |-> 0, signal |-> None])]
RuntimesList == <<[language |-> "rust", version |-> "1.68.2", aliases |-> <<"rs">>]>>

(* A response body: whether it can be read at all, its text, and what it
   decodes to as a RawExecResponse and as a Vec<Runtime>. *)
BodyRun ==
    [readable |-> TRUE,
     text |-> "{\"language\":\"rust\",\"version\":\"1.50.0\",\"run\":{\"stdout\":\"42\\n\",\"stderr\":\"\",\"output\":\"42\\n\",\"code\":0,\"signal\":null}}",
     exec |-> Some(PayloadRun), runtimes |-> None]
BodyCompile ==
    [readable |-> TRUE,
     text |-> "{\"language\":\"rust\",\"version\":\"1.68.2\",\"run\":{...},\"compile\":{...}}",
     exec |-> Some(PayloadCompile), runtimes |-> None]
BodyBad ==
    [readable |-> TRUE, text |-> "bad request", exec |-> None, runtimes |-> None]
BodyRuntimes ==
    [readable |-> TRUE,
     text |-> "[{\"language\":\"rust\",\"version\":\"1.68.2\",\"aliases\":[\"rs\"]}]",
     exec |-> None, runtimes |-> Some(RuntimesList)]
BodyUnreadable ==
    [readable |-> FALSE, text |-> "", exec |-> None, runtimes |-> None]

ExecBodies == {BodyRun, BodyCompile, BodyBad, BodyUnreadable}
FetchBodies == {BodyRuntimes, BodyBad, BodyUnreadable}

NoReply == [transport |-> "none", status |-> 0, body |-> None]

(* Response::text().await *)
ResponseText(body) ==
    IF body.readable THEN Ok(body.text) ELSE Err("body")

(* Response::json::<RawExecResponse>().await *)
ResponseJsonExec(body) ==
    IF ~body.readable THEN Err("body")
    ELSE IF body.exec = None THEN Err("decode")
    ELSE Ok(body.exec[1])

(* Response::json::<Vec<Runtime>>().await *)
ResponseJsonRuntimes(body) ==
    IF ~body.readable THEN Err("body")
    ELSE IF body.runtimes = None THEN Err("decode")
    ELSE Ok(body.runtimes[1])

(***************************************************************************)
(* The two branches of execute                                             *)
(***************************************************************************)

(* format!("{}/...", self.url) *)
Endpoint(url, path) == url \o "/" \o path

(* The request a call builds: .post/.get(endpoint).headers(..).json(..) *)
Request(method, endpoint, headers, json) ==
    [method |-> method, url |-> endpoint, headers |-> headers, json |-> json]

(* The OK arm with the compile stage left out *)
SuccessResponse_NoCompile(response, st) ==
    [language |-> response.language,
     version |-> response.version,
     run |-> response.run,
     compile |-> None,
     status |-> as_u16(st)]

(* The ExecResponse of the StatusCode::OK arm *)
SuccessResponse(response, st) ==
    [language |-> response.language,
     version |-> response.version,
     run |-> response.run,
     compile |-> response.compile,
     status |-> as_u16(st)]

(* The `_` arm formatting status.as_u16() where the code formats the status *)
FailureResponse_CodeOnly(executor, st, bodyText) ==
    LET text == ToString(as_u16(st)) \o ": " \o bodyText
        exec_result == [stdout |-> "", stderr |-> text, output |-> text,
                        code |-> 1, signal |-> None]
    IN  [language |-> executor.language,
         version |-> executor.version,
         run |-> exec_result,
         compile |-> None,
         status |-> as_u16(st)]

(* The `_` arm reading a counter of the Client's earlier calls *)
FailureResponse_Counting(executor, st, bodyText) ==
    LET text == StatusDisplay(st) \o ": " \o bodyText
        exec_result == [stdout |-> "", stderr |-> text, output |-> text,
                        code |-> 1 + Cardinality({d \in Calls : pc[d] = "done"}),
                        signal |-> None]
    IN  [language |-> executor.language,
         version |-> executor.version,
         run |-> exec_result,
         compile |-> None,
         status |-> as_u16(st)]

(* The ExecResponse of the `_` arm *)
FailureResponse(executor, st, bodyText) ==
    LET text == StatusDisplay(st) \o ": " \o bodyText
        exec_result == [stdout |-> "", stderr |-> text, output |-> text,
                        code |-> 1, signal |-> None]
    IN  [language |-> executor.language,
         version |-> executor.version,
         run |-> exec_result,
         compile |-> None,
         status |-> as_u16(st)]

(* execute with every status but 200 turned into an error (error_for_status) *)
ExecuteReturn_NonOkIsErr(executor, st, body) ==
    IF st = StatusOK
    THEN LET response == ResponseJsonExec(body)
         IN  IF IsErr(response) THEN Err(response.err[1])
             ELSE Ok(SuccessResponse(response.ok[1], st))
    ELSE Err("status")

(* execute falling back to the synthesized response when a 200 body does
   not decode *)
ExecuteReturn_FallsBack(executor, st, body) ==
    LET response == ResponseJsonExec(body)
        text == ResponseText(body)
    IN  IF st = StatusOK /\ IsOk(response)
        THEN Ok(SuccessResponse(response.ok[1], st))
        ELSE IF IsErr(text) THEN Err(text.err[1])
        ELSE Ok(FailureResponse(executor, st, text.ok[1]))

(* What execute returns once the body has arrived: match status { .. } *)
ExecuteReturn(executor, st, body) ==
    IF st = StatusOK
    THEN LET response == ResponseJsonExec(body)
         IN  IF IsErr(response) THEN Err(response.err[1])
             ELSE Ok(SuccessResponse(response.ok[1], st))
    ELSE LET text == ResponseText(body)
         IN  IF IsErr(text) THEN Err(text.err[1])
             ELSE Ok(FailureResponse(executor, st, text.ok[1]))

(* What fetch_runtimes returns once the body has arrived *)
FetchReturn(body) ==
    LET runtimes == ResponseJsonRuntimes(body)
    IN  IF IsErr(runtimes) THEN Err(runtimes.err[1]) ELSE Ok(runtimes.ok[1])

(***************************************************************************)
(* The state machine                                                       *)
(***************************************************************************)

Self == client[1]

Init ==
    /\ ctor \in Ctors
    /\ client = Construct(ctor)
    /\ executors = InitialExecutors
    /\ pc = [c \in Calls |-> "idle"]
    /\ op = [c \in Calls |-> "none"]
    /\ arg = [c \in Calls |-> None]
    /\ sent = [c \in Calls |-> <<>>]
    /\ reply = [c \in Calls |-> NoReply]
    /\ status = [c \in Calls |-> 0]
    /\ result = [c \in Calls |-> Pending]

(* Calls take the slots in the order they start. *)
CanStart(c) ==
    /\ client # Panic
    /\ pc[c] = "idle"
    /\ \A d \in Calls : d < c => pc[d] # "idle"

(* execute, up to .send(): the request goes out *)
ExecuteSend(c, e) ==
    /\ CanStart(c)
    /\ pc' = [pc EXCEPT ![c] = "sent"]
    /\ op' = [op EXCEPT ![c] = "execute"]
    /\ arg' = [arg EXCEPT ![c] = Some(e)]
    /\ sent' = [sent EXCEPT ![c] = Append(@,
                    Request("POST", Endpoint(Self.url, "execute"), Self.headers, Some(executors[e])))]
    /\ UNCHANGED <<ctor, client, executors, reply, status, result>>

(* execute sending the request again after a transport failure *)
ExecuteResponse_Retries(c) ==
    /\ pc[c] = "sent"
    /\ op[c] = "execute"
    /\ \/ /\ Len(sent[c]) < 2
          /\ sent' = [sent EXCEPT ![c] = Append(@, @[1])]
          /\ UNCHANGED <<pc, reply, result, status>>
       \/ /\ reply' = [reply EXCEPT ![c].transport = "failed"]
          /\ result' = [result EXCEPT ![c] = Err("transport")]
          /\ pc' = [pc EXCEPT ![c] = "done"]
          /\ UNCHANGED <<status, sent>>
       \/ \E s \in Statuses :
          /\ reply' = [reply EXCEPT ![c].transport = "ok", ![c].status = s]
          /\ status' = [status EXCEPT ![c] = s]
          /\ pc' = [pc EXCEPT ![c] = "recv"]
          /\ UNCHANGED <<result, sent>>
    /\ UNCHANGED <<ctor, client, executors, op, arg>>

(* execute, .send().await resolves: Err(e), or Ok(data) and its status *)
ExecuteResponse(c) ==
    /\ pc[c] = "sent"
    /\ op[c] = "execute"
    /\ \/ /\ reply' = [reply EXCEPT ![c].transport = "failed"]
          /\ result' = [result EXCEPT ![c] = Err("transport")]
          /\ pc' = [pc EXCEPT ![c] = "done"]
          /\ UNCHANGED status
       \/ \E s \in Statuses :
          /\ reply' = [reply EXCEPT ![c].transport = "ok", ![c].status = s]
          /\ status' = [status EXCEPT ![c] = s]
          /\ pc' = [pc EXCEPT ![c] = "recv"]
          /\ UNCHANGED result
    /\ UNCHANGED <<ctor, client, executors, op, arg, sent>>

(* execute reading the language and version of the Executor the Client was
   last called with, kept in a field the calls share *)
ExecuteBody_SharedExecutor(c) ==
    LET last == CHOOSE d \in Calls :
                    /\ op[d] = "execute"
                    /\ \A x \in Calls : op[x] = "execute" => x <= d
    IN  /\ pc[c] = "recv"
        /\ op[c] = "execute"
        /\ \E b \in ExecBodies :
              /\ reply' = [reply EXCEPT ![c].body = Some(b)]
              /\ result' = [result EXCEPT ![c] =
                                ExecuteReturn(executors[arg[last][1]], status[c], b)]
        /\ pc' = [pc EXCEPT ![c] = "done"]
        /\ UNCHANGED <<ctor, client, executors, op, arg, sent, status>>

(* execute, the body arrives (data.json / data.text) and the call returns *)
ExecuteBody(c) ==
    /\ pc[c] = "recv"
    /\ op[c] = "execute"
    /\ \E b \in ExecBodies :
          /\ reply' = [reply EXCEPT ![c].body = Some(b)]
          /\ result' = [result EXCEPT ![c] = ExecuteReturn(executors[arg[c][1]], status[c], b)]
    /\ pc' = [pc EXCEPT ![c] = "done"]
    /\ UNCHANGED <<ctor, client, executors, op, arg, sent, status>>

(* fetch_runtimes, up to .send() *)
FetchSend(c) ==
    /\ CanStart(c)
    /\ pc' = [pc EXCEPT ![c] = "sent"]
    /\ op' = [op EXCEPT ![c] = "fetch_runtimes"]
    /\ sent' = [sent EXCEPT ![c] = Append(@,
                    Request("GET", Endpoint(Self.url, "runtimes"), Self.headers, None))]
    /\ UNCHANGED <<ctor, client, executors, arg, reply, status, result>>

(* fetch_runtimes, .send().await? *)
FetchResponse(c) ==
    /\ pc[c] = "sent"
    /\ op[c] = "fetch_runtimes"
    /\ \/ /\ reply' = [reply EXCEPT ![c].transport = "failed"]
          /\ result' = [result EXCEPT ![c] = Err("transport")]
          /\ pc' = [pc EXCEPT ![c] = "done"]
       \/ \E s \in FetchStatuses :
          /\ reply' = [reply EXCEPT ![c].transport = "ok", ![c].status = s]
          /\ pc' = [pc EXCEPT ![c] = "recv"]
          /\ UNCHANGED result
    /\ UNCHANGED <<ctor, client, executors, op, arg, sent, status>>

(* fetch_runtimes, .json::<Vec<Runtime>>().await? and the return *)
FetchBody(c) ==
    /\ pc[c] = "recv"
    /\ op[c] = "fetch_runtimes"
    /\ \E b \in FetchBodies :
          /\ reply' = [reply EXCEPT ![c].body = Some(b)]
          /\ result' = [result EXCEPT ![c] = FetchReturn(b)]
    /\ pc' = [pc EXCEPT ![c] = "done"]
    /\ UNCHANGED <<ctor, client, executors, op, arg, sent, status>>

(* get_url: the call returns a clone of self.url, which the caller owns *)
GetUrl(c) ==
    /\ CanStart(c)
    /\ pc' = [pc EXCEPT ![c] = "done"]
    /\ op' = [op EXCEPT ![c] = "get_url"]
    /\ result' = [result EXCEPT ![c] = Ok(get_url(Self))]
    /\ UNCHANGED <<ctor, client, executors, arg, sent, reply, status>>

(* get_headers: the call returns a clone of self.headers *)
GetHeaders(c) ==
    /\ CanStart(c)
    /\ pc' = [pc EXCEPT ![c] = "done"]
    /\ op' = [op EXCEPT ![c] = "get_headers"]
    /\ result' = [result EXCEPT ![c] = Ok(get_headers(Self))]
    /\ UNCHANGED <<ctor, client, executors, arg, sent, reply, status>>

(* get_url handing out the Client's own String: the caller's push_str
   changes the Client's url too *)
CallerEditsUrl_Aliased(c) ==
    /\ pc[c] = "done"
    /\ op[c] = "get_url"
    /\ pc' = [pc EXCEPT ![c] = "edited"]
    /\ result' = [result EXCEPT ![c] = Ok(@.ok[1] \o "/v1")]
    /\ client' = Some([Self EXCEPT !.url = @ \o "/v1"])
    /\ UNCHANGED <<ctor, executors, op, arg, sent, reply, status>>

(* The caller changes the String it got from get_url (push_str). *)
CallerEditsUrl(c) ==
    /\ pc[c] = "done"
    /\ op[c] = "get_url"
    /\ pc' = [pc EXCEPT ![c] = "edited"]
    /\ result' = [result EXCEPT ![c] = Ok(@.ok[1] \o "/v1")]
    /\ UNCHANGED <<ctor, client, executors, op, arg, sent, reply, status>>

(* The caller changes the HeaderMap it got from get_headers (insert). *)
CallerEditsHeaders(c) ==
    /\ pc[c] = "done"
    /\ op[c] = "get_headers"
    /\ pc' = [pc EXCEPT ![c] = "edited"]
    /\ result' = [result EXCEPT ![c] = Ok(HeaderInsert(@.ok[1], "Authorization", PistonRs))]
    /\ UNCHANGED <<ctor, client, executors, op, arg, sent, reply, status>>

Next ==
    \/ \E c \in Calls, e \in ExecIds : ExecuteSend(c, e)
    \/ \E c \in Calls : ExecuteResponse(c)
    \/ \E c \in Calls : ExecuteBody(c)
    \/ \E c \in Calls : FetchSend(c)
    \/ \E c \in Calls : FetchResponse(c)
    \/ \E c \in Calls : FetchBody(c)
    \/ \E c \in Calls : GetUrl(c)
    \/ \E c \in Calls : GetHeaders(c)
    \/ \E c \in Calls : CallerEditsUrl(c)
    \/ \E c \in Calls : CallerEditsHeaders(c)

Spec == Init /\ [][Next]_vars

(***************************************************************************)
(* Properties                                                              *)
(***************************************************************************)

ExecuteDone(c) == op[c] = "execute" /\ pc[c] = "done"
Replied(c) == reply[c].transport = "ok"
GotBody(c) == Replied(c) /\ reply[c].body # None
BodyOf(c) == reply[c].body[1]
ExecutorOf(c) == InitialExecutors[arg[c][1]]

(* The reason phrases of RFC 9110 for the codes the service is made to send *)
ReasonPhrase(s) ==
    CASE s = 200 -> "OK"
      [] s = 201 -> "Created"
      [] s = 400 -> "Bad Request"
      [] OTHER -> "<unknown status code>"

Diagnostic(s, b) == ToString(s) \o " " \o ReasonPhrase(s) \o ": " \o b

(* C1: a reply whose status is not 200 and whose body text b can be read
   makes execute return Ok with stdout empty, stderr = output =
   "<status>: <b>", code 1, no signal, no compile stage, status the numeric
   code, and the language and version of the Executor that was passed. *)
C1_NonOkIsSynthesized ==
    \A c \in Calls :
        (ExecuteDone(c) /\ GotBody(c) /\ reply[c].status # 200 /\ BodyOf(c).readable) =>
            /\ result[c] =
                   Ok([language |-> ExecutorOf(c).language,
                       version |-> ExecutorOf(c).version,
                       run |-> [stdout |-> "",
                                stderr |-> Diagnostic(reply[c].status, BodyOf(c).text),
                                output |-> Diagnostic(reply[c].status, BodyOf(c).text),
                                code |-> 1,
                                signal |-> None],
                       compile |-> None,
                       status |-> reply[c].status])
            /\ (reply[c].status = 400 /\ BodyOf(c).text = "bad request") =>
                   result[c].ok[1].run.stderr = "400 Bad Request: bad request"

(* A 201 reply carrying a well-formed payload for another language than the
   request's has been turned into the synthesized response. *)
C1_Witness ==
    \E c \in Calls :
        /\ ExecuteDone(c) /\ GotBody(c)
        /\ reply[c].status = 201
        /\ BodyOf(c) = BodyRun
        /\ ExecutorOf(c).language = "python"
        /\ IsOk(result[c])
        /\ result[c].ok[1].language = "python"
        /\ result[c].ok[1].run.code = 1

(* C2: a 200 reply whose body decodes to a payload p makes execute return Ok
   with the language, version, run and compile of p, unchanged, and status
   200; compile is none exactly when p has no compile result. *)
C2_OkIsVerbatim ==
    \A c \in Calls :
        (ExecuteDone(c) /\ GotBody(c) /\ reply[c].status = 200
            /\ BodyOf(c).readable /\ BodyOf(c).exec # None) =>
            LET p == BodyOf(c).exec[1]
            IN  /\ result[c] = Ok([language |-> p.language, version |-> p.version,
                                   run |-> p.run, compile |-> p.compile, status |-> 200])
                /\ (result[c].ok[1].compile = None) <=> (p.compile = None)

(* A payload with a compile stage and a non-zero exit code with empty stderr,
   for another language than the request's, has been passed through. *)
C2_Witness ==
    \E c \in Calls :
        /\ ExecuteDone(c) /\ GotBody(c)
        /\ reply[c].status = 200
        /\ BodyOf(c) = BodyCompile
        /\ ExecutorOf(c).language = "python"
        /\ IsOk(result[c])
        /\ result[c].ok[1].language = "rust"
        /\ result[c].ok[1].run.code = 137
        /\ result[c].ok[1].run.stderr = ""
        /\ result[c].ok[1].compile # None

(* C3, as claimed: execute returns an error only when the transport call
   fails before any response is received, and Ok whenever a response is
   received. *)
C3_ErrOnlyWithoutResponse ==
    \A c \in Calls :
        ExecuteDone(c) =>
            /\ IsErr(result[c]) => reply[c].transport = "failed"
            /\ Replied(c) => IsOk(result[c])

(* C3, amended: execute returns an error exactly when the transport call
   fails before any response is received, or the body of the response that
   was received cannot be read, or the body of a status-200 response does not
   decode into the remote schema; in every other case it returns Ok. *)
C3_ErrExactly ==
    \A c \in Calls :
        ExecuteDone(c) =>
            /\ IsErr(result[c]) <=>
                   \/ reply[c].transport = "failed"
                   \/ GotBody(c) /\ ~BodyOf(c).readable
                   \/ GotBody(c) /\ reply[c].status = 200 /\ BodyOf(c).exec = None
            /\ IsOk(result[c]) <=> ~IsErr(result[c])

(* A 400 reply with a readable body has returned Ok while a reply with an
   unreadable body has returned an error. *)
C3_Witness ==
    \E c, d \in Calls :
        /\ ExecuteDone(c) /\ GotBody(c) /\ reply[c].status = 400
        /\ BodyOf(c).readable /\ IsOk(result[c])
        /\ ExecuteDone(d) /\ GotBody(d) /\ ~BodyOf(d).readable /\ IsErr(result[d])

(* C4: a 200 reply whose body does not match the remote schema makes execute
   return an error and no ExecResponse, not the synthesized response. *)
C4_UndecodableOkIsErr ==
    \A c \in Calls :
        (ExecuteDone(c) /\ GotBody(c) /\ reply[c].status = 200 /\ BodyOf(c).exec = None) =>
            /\ IsErr(result[c])
            /\ result[c].ok = None

(* A 200 reply with the readable body "bad request" has ended the call. *)
C4_Witness ==
    \E c \in Calls :
        /\ ExecuteDone(c) /\ GotBody(c)
        /\ reply[c].status = 200
        /\ BodyOf(c) = BodyBad
        /\ result[c] = Err("decode")

(* C5, as claimed: for every key k the headers built with Some(k) hold
   Authorization = k, the headers built with None hold no Authorization, and
   both hold Accept = application/json and User-Agent = piston-rs and nothing
   else; so every constructor call yields a Client with those headers. *)
C5_HeadersForEveryKey ==
    LET h == generate_headers(ctor.key)
    IN  /\ h # Panic
        /\ client # Panic
        /\ Self.headers = h[1]
        /\ h[1]["Accept"] = ApplicationJson
        /\ h[1]["User-Agent"] = PistonRs
        /\ ctor.key = None => DOMAIN h[1] = {"Accept", "User-Agent"}
        /\ ctor.key # None =>
               /\ DOMAIN h[1] = {"Accept", "User-Agent", "Authorization"}
               /\ h[1]["Authorization"] = ctor.key[1]

(* C6: get_url returns exactly u on the Clients built by with_url(u) and
   with_url_and_key(u, k), and "https://emkc.org/api/v2/piston" on those
   built by new, default and with_key(k). *)
C6_UrlPreserved ==
    /\ default # Panic
    /\ get_url(default[1]) = "https://emkc.org/api/v2/piston"
    /\ client # Panic =>
           /\ ctor.fn \in {"with_url", "with_url_and_key"} => get_url(Self) = ctor.url[1]
           /\ ctor.fn \in {"new", "with_key"} => get_url(Self) = "https://emkc.org/api/v2/piston"
    /\ \A c \in Calls :
           (op[c] = "get_url" /\ pc[c] = "done") =>
               result[c] = Ok(IF ctor.url # None THEN ctor.url[1]
                              ELSE "https://emkc.org/api/v2/piston")

(* get_url has returned the custom url of a Client built with a url and a
   key. *)
C6_Witness ==
    \E c \in Calls :
        /\ ctor.fn = "with_url_and_key"
        /\ op[c] = "get_url" /\ pc[c] = "done"
        /\ result[c] = Ok("http://localhost:3000")

SameOutcome(c, d) == result[c] = result[d]

(* C7: two execute calls on the Client with equal Executors and the same
   remote behaviour (transport outcome, status, body) have the same outcome:
   equal ExecResponses, or an error both times, whatever calls came before. *)
C7_SameInputsSameOutcome ==
    \A c, d \in Calls :
        (ExecuteDone(c) /\ ExecuteDone(d) /\ ExecutorOf(c) = ExecutorOf(d)
            /\ reply[c] = reply[d]) =>
            /\ SameOutcome(c, d)
            /\ IsErr(result[c]) <=> IsErr(result[d])

(* Two distinct calls with the same Executor got the same 400 reply and both
   returned. *)
C7_Witness ==
    \E c, d \in Calls :
        /\ c # d
        /\ ExecuteDone(c) /\ ExecuteDone(d)
        /\ arg[c] = arg[d]
        /\ reply[c] = reply[d]
        /\ GotBody(c) /\ reply[c].status = 400 /\ BodyOf(c) = BodyBad
        /\ IsOk(result[c]) /\ IsOk(result[d])

(* C8: after any sequence of execute, fetch_runtimes, get_url and
   get_headers calls, whatever their outcomes, the Client's url and headers
   are the ones fixed at construction and the Executors passed to execute
   have their field values of before the call; a value got from get_url or
   get_headers is a copy, whose change leaves the Client as it was. *)
C8_ClientAndExecutorsUnchanged ==
    /\ client = Construct(ctor)
    /\ executors = InitialExecutors
    /\ \A c \in Calls :
           /\ (op[c] = "get_url" /\ pc[c] = "done") => result[c] = Ok(Construct(ctor)[1].url)
           /\ (op[c] = "get_headers" /\ pc[c] = "done") =>
                  result[c] = Ok(Construct(ctor)[1].headers)

(* The caller has changed the url or the headers it got, an execute call
   has ended in an error, and the Client's url and headers differ from the
   changed copy. *)
C8_Witness ==
    \E c, x \in Calls :
        /\ pc[c] = "edited"
        /\ op[c] = "get_url" => result[c].ok[1] # Self.url
        /\ op[c] = "get_headers" => result[c].ok[1] # Self.headers
        /\ ExecuteDone(x) /\ IsErr(result[x])

(* What a call returns, from its own Executor and the reply to its own
   request alone. *)
OwnOutcome(c) ==
    IF reply[c].transport = "failed" THEN Err("transport")
    ELSE ExecuteReturn(ExecutorOf(c), reply[c].status, BodyOf(c))

(* C9: in every interleaving of execute calls on the shared Client, each
   call returns the result its own Executor and the reply to its own request
   determine, and a call in flight can take its next step whatever the other
   calls are doing. *)
C9_CallsAreIsolated ==
    \A c \in Calls :
        /\ ExecuteDone(c) => result[c] = OwnOutcome(c)
        /\ (op[c] = "execute" /\ pc[c] = "sent") => ENABLED ExecuteResponse(c)
        /\ (op[c] = "execute" /\ pc[c] = "recv") => ENABLED ExecuteBody(c)

(* A later call with another Executor and another status has returned its
   own synthesized response while an earlier call is still waiting for its
   body. *)
C9_Witness ==
    \E c, d \in Calls :
        /\ c < d
        /\ op[c] = "execute" /\ pc[c] = "recv" /\ status[c] = 200
        /\ ExecuteDone(d) /\ GotBody(d) /\ reply[d].status = 400
        /\ arg[c] # arg[d]
        /\ IsOk(result[d])
        /\ result[d].ok[1].language = ExecutorOf(d).language
        /\ result[d].ok[1].status = 400

ConfiguredHeaders == generate_headers(ctor.key)[1]
BaseUrl == IF ctor.url # None THEN ctor.url[1] ELSE "https://emkc.org/api/v2/piston"

(* C10: an execute call sends exactly one POST to {base_url}/execute and a
   fetch_runtimes call exactly one GET to {base_url}/runtimes, with the
   Client's configured headers; a call whose transport failed or whose reply
   was not 200 has sent nothing more, and a failed transport ends the call
   at once with the error. *)
C10_OneRequestPerCall ==
    \A c \in Calls :
        /\ op[c] = "execute" =>
               sent[c] = <<[method |-> "POST", url |-> BaseUrl \o "/execute",
                            headers |-> ConfiguredHeaders, json |-> Some(ExecutorOf(c))]>>
        /\ op[c] = "fetch_runtimes" =>
               sent[c] = <<[method |-> "GET", url |-> BaseUrl \o "/runtimes",
                            headers |-> ConfiguredHeaders, json |-> None]>>
        /\ op[c] \notin {"execute", "fetch_runtimes"} => sent[c] = <<>>
        /\ reply[c].transport = "failed" => pc[c] = "done" /\ result[c] = Err("transport")
        /\ (ExecuteDone(c) /\ Replied(c) /\ reply[c].status # 200) => Len(sent[c]) = 1

(* An execute call whose transport failed and a fetch_runtimes call that got
   a 400 reply have both returned, each having sent its one request. *)
C10_Witness ==
    \E c, d \in Calls :
        /\ ExecuteDone(c) /\ reply[c].transport = "failed" /\ Len(sent[c]) = 1
        /\ sent[c][1].url = "http://localhost:3000/execute"
        /\ "Authorization" \in DOMAIN sent[c][1].headers
        /\ op[d] = "fetch_runtimes" /\ pc[d] = "done" /\ reply[d].status = 400
        /\ Len(sent[d]) = 1

====
